---------------------------- MODULE Spec2Model ----------------------------
(***************************************************************************)
(* Model of v1/amqp.go: AMQPConnection (constructor, Open, Close,          *)
(* WaitForMessages, handleDeliveries, PublishMessage) running against an   *)
(* AMQP broker.  Go values are modelled as records, goroutines as          *)
(* processes with a program counter, the broker and the amqp client        *)
(* library as the environment at the places where the code calls them.     *)
(***************************************************************************)
EXTENDS Naturals, Integers, Sequences, FiniteSets, TLC

(* ------------------------------ bounds --------------------------------- *)

\* number of amqp.Dial calls (Open calls) explored
MaxOpens == 2
\* number of deliveries the broker emits on the consumer's stream
MaxDeliveries == 4
\* number of PublishMessage calls explored
MaxPublish == 1

(* --------------------------- configuration ----------------------------- *)

\* config.Config as read by amqp.go (Exchange is passed through untouched and
\* left out), with the prefetch count the specification lists among its fields.
\* The configurations explored: the specification's scenario, and others that
\* vary the exchange type, the keys and the prefetch count.  The binding key
\* is empty only for a fanout exchange.
Configs ==
    { [ExchangeType |-> "direct", BindingKey |-> "work",
       DefaultQueue |-> "default", PrefetchCount |-> 3],
      [ExchangeType |-> "fanout", BindingKey |-> "",
       DefaultQueue |-> "default", PrefetchCount |-> 3],
      [ExchangeType |-> "topic", BindingKey |-> "work.#",
       DefaultQueue |-> "tasks", PrefetchCount |-> 1],
      [ExchangeType |-> "direct", BindingKey |-> "tasks",
       DefaultQueue |-> "tasks", PrefetchCount |-> 2] }

\* message bodies, as byte sequences
PublishBodies == { <<"x">> }

\* The messages waiting in the broker's queue, as explored: the scenario's
\* bodies a, b.., c, over and over.
ScenarioBodies == << <<"a">>, <<"b", ".", ".">>, <<"c">> >>
QueueContents ==
    { [i \in 1..MaxDeliveries |-> ScenarioBodies[((i - 1) % 3) + 1]] }
RoutingKeys == {"", "rk"}

Threads == {"main", "owner"}

\* the zero value of the conn, channel and queue fields
NilVal == [conn |-> 0, channel |-> 0, queue |-> ""]

VARIABLES
    config,        \* c.config, shared by every copy of the value
    proc,          \* "running", "fatal" (errors.Fail) or "panic"
    fatalMsg,      \* the message errors.Fail aborted with
    pc,            \* pc[t]: where goroutine t is
    c,             \* c[t]: the receiver copy of the method t is running
    trace,         \* trace[t]: library calls of t's current method, with results
    recv,          \* index in held of the value main's Open was called on (0: none)
    held,          \* the AMQPConnection values the caller holds
    conns,         \* broker connections: "none", "open", "closed"
    chans,         \* channels (one per connection): "none", "open", "closed"
    qos,           \* prefetch count set on each channel (0: no limit)
    consumerCh,    \* channel the consumer was started on (0: none)
    deliveries,    \* the deliveries stream (Go channel) of the consumer
    streamClosed,  \* the deliveries stream has been closed
    unacked,       \* delivery tags pushed to the consumer and not acknowledged
    requeued,      \* delivery tags the broker put back in the queue, unacknowledged
    bgPc,          \* where the handleDeliveries goroutine is
    d,             \* its loop variable
    sleepLeft,     \* seconds of time.Sleep left
    brokerQueue,   \* the messages waiting in the broker's queue
    emitted,       \* deliveries the broker emitted, in order
    pulled,        \* deliveries the goroutine received from the stream, in order
    ackLog,        \* d.Ack calls, in order, with whether the channel was open
    callbacks,     \* w.processMessage calls, in order
    pub,           \* pub[t]: the message t's PublishMessage handed to channel.Publish
    nPublish,      \* number of PublishMessage calls
    logs           \* logs[t]: messages errors.Log wrote in t's current method

vars == <<config, recv, proc, fatalMsg, pc, c, trace, held, conns, chans, qos,
          consumerCh, deliveries, streamClosed, unacked, requeued, bgPc, d,
          sleepLeft, brokerQueue, emitted, pulled, ackLog, callbacks, pub, nPublish, logs>>

ids == 1..MaxOpens

NoDelivery == [tag |-> 0, body |-> <<>>]
NoPub == [val |-> 0, arg |-> "", key |-> "", body |-> <<>>, ch |-> 0]

Init ==
    /\ config \in Configs
    /\ proc = "running"
    /\ fatalMsg = ""
    /\ pc = [t \in Threads |-> IF t = "main" THEN "start" ELSE "idle"]
    /\ c = [t \in Threads |-> NilVal]
    /\ trace = [t \in Threads |-> <<>>]
    /\ held = <<>>
    /\ recv = 0
    /\ conns = [k \in ids |-> "none"]
    /\ chans = [k \in ids |-> "none"]
    /\ qos = [k \in ids |-> 0]
    /\ consumerCh = 0
    /\ deliveries = <<>>
    /\ streamClosed = FALSE
    /\ unacked = {}
    /\ requeued = {}
    /\ bgPc = "none"
    /\ d = NoDelivery
    /\ sleepLeft = 0
    /\ brokerQueue \in QueueContents
    /\ emitted = <<>>
    /\ pulled = <<>>
    /\ ackLog = <<>>
    /\ callbacks = <<>>
    /\ pub = [t \in Threads |-> NoPub]
    /\ nPublish = 0
    /\ logs = [t \in Threads |-> <<>>]

brokerVars == <<conns, chans, qos, consumerCh, deliveries, streamClosed, unacked,
                requeued, brokerQueue, emitted>>
bgVars == <<bgPc, d, sleepLeft, pulled, ackLog, callbacks>>
pubVars == <<pub, nPublish>>

(* ----------------------- errors.Fail / errors.Log ---------------------- *)

\* errors.Fail(err, msg): aborts the process when err is not nil
Fail(err, msg) ==
    IF err THEN proc' = "fatal" /\ fatalMsg' = msg
           ELSE UNCHANGED <<proc, fatalMsg>>

\* errors.Log(err, msg): reports when err is not nil, and continues
Log(t, err, msg) ==
    logs' = [logs EXCEPT ![t] = IF err THEN Append(@, msg) ELSE @]

\* a nil pointer dereference (or runtime throw) in any goroutine ends the process
Panic == proc' = "panic" /\ UNCHANGED fatalMsg

\* history: goroutine t called library operation op, which succeeded or not
Called(t, op, ok) ==
    trace' = [trace EXCEPT ![t] = Append(@, [op |-> op, ok |-> ok])]

SetPc(t, p) == pc' = [pc EXCEPT ![t] = p]

\* Goroutine t is free to call a method on the value held[v].  The main
\* goroutine makes its calls one after the other, on any value it holds; the
\* second goroutine shares the value the main one is inside WaitForMessages
\* on, and makes its calls on it meanwhile.
InWfm == pc["main"] \in {"qos", "consume", "spawn", "forever",
                         "deferCloseChannel", "deferCloseConn"}
CanCall(t, v) ==
    /\ pc[t] = "idle"
    /\ v \in 1..Len(held)
    /\ t = "owner" => InWfm /\ held[v] = c["main"]

\* goroutine t returns from its method to its caller: the method's frame (the
\* receiver copy, and the record of what the call did) is gone
Return(t) ==
    /\ pc' = [pc EXCEPT ![t] = "idle"]
    /\ c' = [c EXCEPT ![t] = NilVal]
    /\ trace' = [trace EXCEPT ![t] = <<>>]
    /\ logs' = [logs EXCEPT ![t] = <<>>]
    /\ pub' = [pub EXCEPT ![t] = NoPub]

\* number of connections dialled so far
NumDials == Cardinality({k \in ids : conns[k] # "none"})

\* The channels in K are closed (by the client, or with their connection): the
\* consumer's stream is closed, what the client library buffered is still
\* handed over or is dropped (the library's versions differ), and the broker
\* requeues what was not acknowledged.
ChannelsClosed(K) ==
    /\ chans' = [k \in ids |-> IF k \in K /\ chans[k] = "open" THEN "closed" ELSE chans[k]]
    /\ IF consumerCh \in K /\ ~streamClosed
         THEN /\ streamClosed' = TRUE
              /\ requeued' = requeued \cup unacked
              /\ unacked' = {}
              /\ \E keep \in {0, Len(deliveries)} :
                    deliveries' = SubSeq(deliveries, 1, keep)
         ELSE UNCHANGED <<streamClosed, unacked, requeued, deliveries>>

(* ---------------------------- construction ----------------------------- *)

\* InitAMQPConnection: runtime.SetFinalizer is handed the struct value c, not a
\* pointer, and the runtime throws on a first argument that is not a pointer.
InitAMQPConnection ==
    /\ proc = "running" /\ pc["main"] = "start"
    /\ Panic
    /\ UNCHANGED <<config, recv, pc, c, trace, held, brokerVars, bgVars, pubVars, logs>>

\* AMQPConnection{config: cnf}: the value of line 25, built without the finalizer
NewAMQPConnection ==
    /\ proc = "running" /\ pc["main"] = "start"
    /\ held' = <<NilVal>>
    /\ SetPc("main", "idle")
    /\ UNCHANGED <<config, recv, proc, fatalMsg, c, trace, brokerVars, bgVars, pubVars, logs>>

(* -------------------------------- Open --------------------------------- *)

\* Open's statements with the queue bound before it is declared
OpenNextBindFirst(step) ==
    CASE step = "call"     -> "dial"
      [] step = "dial"     -> "channel"
      [] step = "channel"  -> "exchange"
      [] step = "exchange" -> "bind"
      [] step = "bind"     -> "queue"
      [] step = "queue"    -> "openReturn"

\* the order of Open's statements
OpenNext(step) ==
    CASE step = "call"     -> "dial"
      [] step = "dial"     -> "channel"
      [] step = "channel"  -> "exchange"
      [] step = "exchange" -> "queue"
      [] step = "queue"    -> "bind"
      [] step = "bind"     -> "openReturn"

\* the name of the queue QueueDeclare returns: the broker generates one for ""
DeclaredName(name) == IF name = "" THEN "amq.gen" ELSE name

\* v.Open() is called: the receiver is copied into c
OpenCall(v) ==
    /\ proc = "running" /\ pc["main"] = "idle"
    /\ v \in 1..Len(held)
    /\ NumDials < MaxOpens
    /\ c' = [c EXCEPT !["main"] = held[v]]
    /\ recv' = v
    /\ trace' = [trace EXCEPT !["main"] = <<>>]
    /\ SetPc("main", OpenNext("call"))
    /\ UNCHANGED <<config, proc, fatalMsg, held, brokerVars, bgVars, pubVars, logs>>

\* c.conn, err = amqp.Dial(...); errors.Fail(err, "Dial")
OpenDial ==
    /\ proc = "running" /\ pc["main"] = "dial"
    /\ \E ok \in BOOLEAN :
         LET id == NumDials + 1 IN
         /\ conns' = IF ok THEN [conns EXCEPT ![id] = "open"] ELSE conns
         /\ c' = [c EXCEPT !["main"].conn = IF ok THEN id ELSE 0]
         /\ Called("main", "Dial", ok)
         /\ Fail(~ok, "Dial")
         /\ pc' = IF ok THEN [pc EXCEPT !["main"] = OpenNext("dial")] ELSE pc
    /\ UNCHANGED <<config, recv, held, chans, qos, consumerCh, deliveries, streamClosed,
                   unacked, requeued, brokerQueue, emitted, bgVars, pubVars, logs>>

\* c.channel, err = c.conn.Channel(); errors.Fail(err, "Channel")
OpenChannel ==
    /\ proc = "running" /\ pc["main"] = "channel"
    /\ \E ok \in BOOLEAN :
         /\ ok => conns[c["main"].conn] = "open"
         /\ chans' = IF ok THEN [chans EXCEPT ![c["main"].conn] = "open"] ELSE chans
         /\ c' = [c EXCEPT !["main"].channel = IF ok THEN c["main"].conn ELSE 0]
         /\ Called("main", "Channel", ok)
         /\ Fail(~ok, "Channel")
         /\ pc' = IF ok THEN [pc EXCEPT !["main"] = OpenNext("channel")] ELSE pc
    /\ UNCHANGED <<config, recv, held, conns, qos, consumerCh, deliveries, streamClosed,
                   unacked, requeued, brokerQueue, emitted, bgVars, pubVars, logs>>

\* err = c.channel.ExchangeDeclare(...); errors.Fail(err, "Exchange")
OpenExchange ==
    /\ proc = "running" /\ pc["main"] = "exchange"
    /\ \E ok \in BOOLEAN :
         /\ ok => chans[c["main"].channel] = "open"
         /\ Called("main", "ExchangeDeclare", ok)
         /\ Fail(~ok, "Exchange")
         /\ pc' = IF ok THEN [pc EXCEPT !["main"] = OpenNext("exchange")] ELSE pc
    /\ UNCHANGED <<config, recv, c, held, brokerVars, bgVars, pubVars, logs>>

\* c.queue, err = c.channel.QueueDeclare(c.config.DefaultQueue, ...); errors.Fail
OpenQueue ==
    /\ proc = "running" /\ pc["main"] = "queue"
    /\ \E ok \in BOOLEAN :
         /\ ok => chans[c["main"].channel] = "open"
         /\ c' = [c EXCEPT !["main"].queue =
                    IF ok THEN DeclaredName(config.DefaultQueue) ELSE ""]
         /\ Called("main", "QueueDeclare", ok)
         /\ Fail(~ok, "Queue Declare")
         /\ pc' = IF ok THEN [pc EXCEPT !["main"] = OpenNext("queue")] ELSE pc
    /\ UNCHANGED <<config, recv, held, brokerVars, bgVars, pubVars, logs>>

\* err = c.channel.QueueBind(...); errors.Fail(err, "Queue Bind")
OpenBind ==
    /\ proc = "running" /\ pc["main"] = "bind"
    /\ \E ok \in BOOLEAN :
         /\ ok => chans[c["main"].channel] = "open"
         /\ Called("main", "QueueBind", ok)
         /\ Fail(~ok, "Queue Bind")
         /\ pc' = IF ok THEN [pc EXCEPT !["main"] = OpenNext("bind")] ELSE pc
    /\ UNCHANGED <<config, recv, c, held, brokerVars, bgVars, pubVars, logs>>

\* what the caller holds after Open had a pointer receiver: the value it was
\* called on is opened in place
HeldAfterOpenInPlace == Append([held EXCEPT ![recv] = c["main"]], c["main"])

\* what the caller holds after Open returned: the value it called Open on,
\* untouched (Open has a value receiver and worked on a copy), and the copy
HeldAfterOpen == Append(held, c["main"])

\* return c: the caller receives the opened copy
OpenReturn ==
    /\ proc = "running" /\ pc["main"] = "openReturn"
    /\ held' = HeldAfterOpen
    /\ recv' = 0
    /\ Return("main")
    /\ UNCHANGED <<config, proc, fatalMsg, brokerVars, bgVars, nPublish>>

(* -------------------------------- Close -------------------------------- *)

\* v.Close() is called by goroutine t
CloseCall(t, v) ==
    /\ proc = "running" /\ CanCall(t, v)
    /\ c' = [c EXCEPT ![t] = held[v]]
    /\ trace' = [trace EXCEPT ![t] = <<>>]
    /\ logs' = [logs EXCEPT ![t] = <<>>]
    /\ SetPc(t, "closeChannel")
    /\ UNCHANGED <<config, recv, proc, fatalMsg, held, brokerVars, bgVars, pubVars>>

\* the channel close with its error handed to errors.Fail
CloseChannelFatal(t) ==
    /\ proc = "running" /\ pc[t] \in {"closeChannel", "deferCloseChannel"}
    /\ IF c[t].channel = 0
         THEN /\ Panic
              /\ UNCHANGED <<pc, trace, chans, streamClosed, unacked, requeued, deliveries>>
         ELSE LET ok == chans[c[t].channel] = "open" IN
              /\ ChannelsClosed({c[t].channel})
              /\ Called(t, "channel.Close", ok)
              /\ Fail(~ok, "Consumer cancel failed")
              /\ pc' = IF ~ok THEN pc
                        ELSE [pc EXCEPT ![t] = IF pc[t] = "closeChannel"
                                                 THEN "closeConn" ELSE "deferCloseConn"]
    /\ UNCHANGED <<config, recv, c, held, conns, qos, consumerCh, brokerQueue, emitted,
                   bgVars, pubVars, logs>>

\* err := c.channel.Close(); errors.Log(err, "Consumer cancel failed")
CloseChannel(t) ==
    /\ proc = "running" /\ pc[t] \in {"closeChannel", "deferCloseChannel"}
    /\ IF c[t].channel = 0
         THEN /\ Panic
              /\ UNCHANGED <<pc, trace, logs, chans, streamClosed, unacked, requeued, deliveries>>
         ELSE LET ok == chans[c[t].channel] = "open" IN
              /\ ChannelsClosed({c[t].channel})
              /\ Called(t, "channel.Close", ok)
              /\ Log(t, ~ok, "Consumer cancel failed")
              /\ SetPc(t, IF pc[t] = "closeChannel" THEN "closeConn" ELSE "deferCloseConn")
              /\ UNCHANGED <<proc, fatalMsg>>
    /\ UNCHANGED <<config, recv, c, held, conns, qos, consumerCh, brokerQueue, emitted, bgVars, pubVars>>

\* err = c.conn.Close(); errors.Log(err, "AMQP connection close error")
CloseConn(t) ==
    /\ proc = "running" /\ pc[t] \in {"closeConn", "deferCloseConn"}
    /\ LET ok == conns[c[t].conn] = "open" IN
       /\ conns' = [conns EXCEPT ![c[t].conn] = "closed"]
       /\ ChannelsClosed({c[t].conn})
       /\ Called(t, "conn.Close", ok)
       /\ Log(t, ~ok, "AMQP connection close error")
       /\ SetPc(t, IF pc[t] = "closeConn" THEN "closeReturn" ELSE "returned")
    /\ UNCHANGED <<config, recv, proc, fatalMsg, c, held, qos, consumerCh, brokerQueue, emitted, bgVars, pubVars>>

\* Close returns
CloseReturn(t) ==
    /\ proc = "running" /\ pc[t] = "closeReturn"
    /\ Return(t)
    /\ UNCHANGED <<config, recv, proc, fatalMsg, held, brokerVars, bgVars, nPublish>>

(* --------------------------- PublishMessage ---------------------------- *)

\* RoutingKey with the exchange type not looked at: always the queue's name
RoutingKeyQueueOnly(cv, routingKey) ==
    IF routingKey = "" THEN cv.queue ELSE routingKey

\* RoutingKey with the exchange type not looked at: always the binding key
RoutingKeyBindingOnly(cv, routingKey) ==
    IF routingKey = "" THEN config.BindingKey ELSE routingKey

\* RoutingKey with the default applied whatever the caller passed
RoutingKeyIgnoreArg(cv, routingKey) ==
    IF config.ExchangeType = "direct" THEN config.BindingKey ELSE cv.queue

\* the routing key PublishMessage hands to channel.Publish
RoutingKey(cv, routingKey) ==
    IF routingKey = ""
      THEN IF config.ExchangeType = "direct"
             THEN config.BindingKey
             ELSE cv.queue
      ELSE routingKey

\* channel.Publish called again after an error
PublishAttemptsRetry(ok) ==
    IF ok THEN <<[op |-> "Publish", ok |-> TRUE]>>
          ELSE <<[op |-> "Publish", ok |-> FALSE], [op |-> "Publish", ok |-> FALSE]>>

\* the channel.Publish calls of one PublishMessage call, ok the broker's answer
PublishAttempts(ok) == <<[op |-> "Publish", ok |-> ok]>>

\* v.PublishMessage(body, routingKey), called by goroutine t
PublishMessage(t, v, body, routingKey) ==
    /\ proc = "running" /\ CanCall(t, v)
    /\ nPublish < MaxPublish
    /\ nPublish' = nPublish + 1
    /\ c' = [c EXCEPT ![t] = held[v]]
    /\ IF held[v].channel = 0
         THEN /\ Panic
              /\ UNCHANGED <<pc, trace, pub>>
         ELSE \E ok \in BOOLEAN :
              /\ ok => chans[held[v].channel] = "open"
              /\ pub' = [pub EXCEPT ![t] =
                            [val |-> v, arg |-> routingKey,
                             key |-> RoutingKey(held[v], routingKey),
                             body |-> body, ch |-> held[v].channel]]
              /\ trace' = [trace EXCEPT ![t] = PublishAttempts(ok)]
              /\ Fail(~ok, "Failed to publish a message")
              /\ pc' = IF ok THEN [pc EXCEPT ![t] = "publishReturn"] ELSE pc
    /\ UNCHANGED <<config, recv, held, brokerVars, bgVars, logs>>

\* PublishMessage returns
PublishReturn(t) ==
    /\ proc = "running" /\ pc[t] = "publishReturn"
    /\ Return(t)
    /\ UNCHANGED <<config, recv, proc, fatalMsg, held, brokerVars, bgVars, nPublish>>

(* --------------------------- WaitForMessages --------------------------- *)

\* a prefetch count off by one
PrefetchCountOffByOne == 3 + 1

\* prefetch count handed to channel.Qos
PrefetchCount == 3

\* WaitForMessages with the stream opened before the prefetch limit is set
WfmNextConsumeFirst(step) ==
    CASE step = "call"    -> "consume"
      [] step = "consume" -> "qos"
      [] step = "qos"     -> "spawn"
      [] step = "spawn"   -> "forever"

\* the order of WaitForMessages' statements
WfmNext(step) ==
    CASE step = "call"    -> "qos"
      [] step = "qos"     -> "consume"
      [] step = "consume" -> "spawn"
      [] step = "spawn"   -> "forever"

\* the forever channel signalled by the goroutine when the stream ends
ForeverReadyAtStreamEnd == bgPc = "done"

\* whether a receive from the forever channel can proceed: the channel is made
\* in line 110 and handed to nobody, so nothing is ever sent on it or closes it
ForeverReady == FALSE

\* v.WaitForMessages(w) is called; defer c.Close() is registered
WfmCall(v) ==
    /\ proc = "running" /\ pc["main"] = "idle"
    /\ v \in 1..Len(held)
    /\ c' = [c EXCEPT !["main"] = held[v]]
    /\ trace' = [trace EXCEPT !["main"] = <<>>]
    /\ SetPc("main", WfmNext("call"))
    /\ UNCHANGED <<config, recv, proc, fatalMsg, held, brokerVars, bgVars, pubVars, logs>>

\* err := c.channel.Qos(3, 0, false); errors.Fail(err, "Failed to set QoS")
WfmQos ==
    /\ proc = "running" /\ pc["main"] = "qos"
    /\ IF c["main"].channel = 0
         THEN /\ Panic
              /\ UNCHANGED <<pc, trace, qos>>
         ELSE \E ok \in BOOLEAN :
              /\ ok => chans[c["main"].channel] = "open"
              /\ qos' = IF ok THEN [qos EXCEPT ![c["main"].channel] = PrefetchCount] ELSE qos
              /\ Called("main", "Qos", ok)
              /\ Fail(~ok, "Failed to set QoS")
              /\ pc' = IF ok THEN [pc EXCEPT !["main"] = WfmNext("qos")] ELSE pc
    /\ UNCHANGED <<config, recv, c, held, conns, chans, consumerCh, deliveries, streamClosed,
                   unacked, requeued, brokerQueue, emitted, bgVars, pubVars, logs>>

\* deliveries, err := c.channel.Consume(c.queue.Name, ...); errors.Fail(err, ...)
WfmConsume ==
    /\ proc = "running" /\ pc["main"] = "consume"
    /\ IF c["main"].channel = 0
         THEN /\ Panic
              /\ UNCHANGED <<pc, trace, consumerCh>>
         ELSE \E ok \in BOOLEAN :
              /\ ok => chans[c["main"].channel] = "open"
              /\ consumerCh' = IF ok THEN c["main"].channel ELSE consumerCh
              /\ Called("main", "Consume", ok)
              /\ Fail(~ok, "Queue Consume")
              /\ pc' = IF ok THEN [pc EXCEPT !["main"] = WfmNext("consume")] ELSE pc
    /\ UNCHANGED <<config, recv, c, held, conns, chans, qos, deliveries, streamClosed,
                   unacked, requeued, brokerQueue, emitted, bgVars, pubVars, logs>>

\* forever := make(chan bool); go c.handleDeliveries(deliveries, w)
WfmSpawn ==
    /\ proc = "running" /\ pc["main"] = "spawn"
    /\ bgPc' = "range"
    /\ SetPc("main", WfmNext("spawn"))
    /\ UNCHANGED <<config, recv, proc, fatalMsg, c, trace, held, brokerVars, d, sleepLeft,
                   pulled, ackLog, callbacks, pubVars, logs>>

\* <-forever: the goroutine stays blocked while the receive cannot proceed; were
\* it to proceed, the function would return through the deferred c.Close()
WfmForever ==
    /\ proc = "running" /\ pc["main"] = "forever"
    /\ IF ForeverReady
         THEN SetPc("main", "deferCloseChannel")
         ELSE UNCHANGED pc
    /\ UNCHANGED <<config, recv, proc, fatalMsg, c, trace, held, brokerVars, bgVars, pubVars, logs>>

(* -------------------------- handleDeliveries --------------------------- *)

\* bytes.Count(body, sep) for a one-byte separator
RECURSIVE BytesCount(_, _)
BytesCount(body, sep) ==
    IF body = <<>> THEN 0
    ELSE (IF Head(body) = sep THEN 1 ELSE 0) + BytesCount(Tail(body), sep)

\* the loop body with the ack moved after the callback
HdNextAckLast(step) ==
    CASE step = "pull"    -> "sleep"
      [] step = "sleep"   -> "process"
      [] step = "process" -> "ack"
      [] step = "ack"     -> "range"

\* the loop body going round without waiting for the callback
HdNextSkipCallback(step) ==
    CASE step = "pull"    -> "ack"
      [] step = "ack"     -> "sleep"
      [] step = "sleep"   -> "range"
      [] step = "process" -> "range"

\* the order of the statements of the loop body
HdNext(step) ==
    CASE step = "pull"    -> "ack"
      [] step = "ack"     -> "sleep"
      [] step = "sleep"   -> "process"
      [] step = "process" -> "range"

\* the delivery acknowledged twice
AckCallsTwice(dl, ok) ==
    Append(Append(ackLog, [tag |-> dl.tag, ok |-> ok]), [tag |-> dl.tag, ok |-> ok])

\* the record of d.Ack(false): one single-delivery ack of dl's tag
AckCalls(dl, ok) == Append(ackLog, [tag |-> dl.tag, ok |-> ok])

NotDot(b) == b # "."

\* the callback handed the body with its dots stripped
ProcessArgStripped(dl) == [dl EXCEPT !.body = SelectSeq(dl.body, NotDot)]

\* the argument of w.processMessage(&d): the delivery as received
ProcessArg(dl) == [tag |-> dl.tag, body |-> dl.body]

\* the loop with the end of the stream treated as a fatal error
HdRangeFatalAtEnd ==
    /\ proc = "running" /\ bgPc = "range"
    /\ IF deliveries # <<>>
         THEN /\ d' = Head(deliveries)
              /\ deliveries' = Tail(deliveries)
              /\ pulled' = Append(pulled, Head(deliveries))
              /\ bgPc' = HdNext("pull")
              /\ UNCHANGED <<proc, fatalMsg>>
         ELSE /\ streamClosed
              /\ bgPc' = "done"
              /\ Fail(TRUE, "deliveries closed")
              /\ UNCHANGED <<d, deliveries, pulled>>
    /\ UNCHANGED <<config, recv, pc, c, trace, held, conns, chans, qos,
                   consumerCh, streamClosed, unacked, requeued, brokerQueue, emitted, sleepLeft, ackLog,
                   callbacks, pubVars, logs>>

\* for d := range deliveries: receive the next delivery, or leave the loop
\* once the stream is closed and drained
HdRange ==
    /\ proc = "running" /\ bgPc = "range"
    /\ IF deliveries # <<>>
         THEN /\ d' = Head(deliveries)
              /\ deliveries' = Tail(deliveries)
              /\ pulled' = Append(pulled, Head(deliveries))
              /\ bgPc' = HdNext("pull")
         ELSE /\ streamClosed
              /\ bgPc' = "done"
              /\ UNCHANGED <<d, deliveries, pulled>>
    /\ UNCHANGED <<config, recv, proc, fatalMsg, pc, c, trace, held, conns, chans, qos,
                   consumerCh, streamClosed, unacked, requeued, brokerQueue, emitted, sleepLeft, ackLog,
                   callbacks, pubVars, logs>>

\* the loop left when d.Ack returns an error
HdAckStopOnError ==
    /\ proc = "running" /\ bgPc = "ack"
    /\ LET ok == chans[consumerCh] = "open" IN
       /\ ackLog' = AckCalls(d, ok)
       /\ unacked' = IF ok THEN unacked \ {d.tag} ELSE unacked
       /\ bgPc' = IF ok THEN HdNext("ack") ELSE "done"
    /\ UNCHANGED <<config, recv, proc, fatalMsg, pc, c, trace, held, conns, chans, qos,
                   consumerCh, deliveries, streamClosed, requeued, brokerQueue, emitted,
                   d, sleepLeft, pulled, callbacks, pubVars, logs>>

\* d.Ack(false): sent on the delivery's channel; the result is dropped
HdAck ==
    /\ proc = "running" /\ bgPc = "ack"
    /\ LET ok == chans[consumerCh] = "open" IN
       /\ ackLog' = AckCalls(d, ok)
       /\ unacked' = IF ok THEN unacked \ {d.tag} ELSE unacked
    /\ bgPc' = HdNext("ack")
    /\ UNCHANGED <<config, recv, proc, fatalMsg, pc, c, trace, held, conns, chans, qos,
                   consumerCh, deliveries, streamClosed, requeued, brokerQueue, emitted, d, sleepLeft,
                   pulled, callbacks, pubVars, logs>>

\* dotCount := bytes.Count(d.Body, "."); time.Sleep(dotCount seconds) begins
HdSleep ==
    /\ proc = "running" /\ bgPc = "sleep"
    /\ LET dotCount == BytesCount(d.body, ".") IN
       /\ sleepLeft' = dotCount
       /\ bgPc' = IF dotCount = 0 THEN HdNext("sleep") ELSE "sleeping"
    /\ UNCHANGED <<config, recv, proc, fatalMsg, pc, c, trace, held, brokerVars, d,
                   pulled, ackLog, callbacks, pubVars, logs>>

\* one second of time.Sleep passes
HdTick ==
    /\ proc = "running" /\ bgPc = "sleeping"
    /\ sleepLeft' = sleepLeft - 1
    /\ bgPc' = IF sleepLeft = 1 THEN HdNext("sleep") ELSE "sleeping"
    /\ UNCHANGED <<config, recv, proc, fatalMsg, pc, c, trace, held, brokerVars, d,
                   pulled, ackLog, callbacks, pubVars, logs>>

\* w.processMessage(&d) is invoked
HdProcess ==
    /\ proc = "running" /\ bgPc = "process"
    /\ callbacks' = Append(callbacks, ProcessArg(d))
    /\ bgPc' = "processing"
    /\ UNCHANGED <<config, recv, proc, fatalMsg, pc, c, trace, held, brokerVars, d,
                   sleepLeft, pulled, ackLog, pubVars, logs>>

\* w.processMessage returns; the loop goes round
HdProcessReturn ==
    /\ proc = "running" /\ bgPc = "processing"
    /\ bgPc' = HdNext("process")
    /\ UNCHANGED <<config, recv, proc, fatalMsg, pc, c, trace, held, brokerVars, d,
                   sleepLeft, pulled, ackLog, callbacks, pubVars, logs>>

\* w.processMessage panics (a worker crash): a panic in a goroutine that
\* nothing recovers ends the process, the callback unfinished
HdProcessCrash ==
    /\ proc = "running" /\ bgPc = "processing"
    /\ Panic
    /\ UNCHANGED <<config, recv, pc, c, trace, held, brokerVars, bgVars, pubVars, logs>>

(* ------------------------------- broker -------------------------------- *)

\* The broker pushes the next message of the queue to the consumer started by
\* channel.Consume (manual ack), as long as the number of unacknowledged
\* deliveries is below the channel's prefetch count (0: no limit).
BrokerDeliver ==
    /\ proc = "running"
    /\ consumerCh # 0 /\ chans[consumerCh] = "open"
    /\ Len(emitted) < MaxDeliveries
    /\ qos[consumerCh] = 0 \/ Cardinality(unacked) < qos[consumerCh]
    /\ LET dl == [tag |-> Len(emitted) + 1, body |-> brokerQueue[Len(emitted) + 1]] IN
       /\ emitted' = Append(emitted, dl)
       /\ deliveries' = Append(deliveries, dl)
       /\ unacked' = unacked \cup {dl.tag}
    /\ UNCHANGED <<config, recv, proc, fatalMsg, pc, c, trace, held, conns, chans, qos,
                   consumerCh, streamClosed, requeued, brokerQueue, bgVars, pubVars, logs>>

\* the connection k is lost: its channel and the consumer's stream go with it
ConnectionLost(k) ==
    /\ proc = "running"
    /\ conns[k] = "open"
    /\ conns' = [conns EXCEPT ![k] = "closed"]
    /\ ChannelsClosed({k})
    /\ UNCHANGED <<config, recv, proc, fatalMsg, pc, c, trace, held, qos, consumerCh,
                   brokerQueue, emitted, bgVars, pubVars, logs>>

\* The process has ended (fatal error or panic): its sockets are closed, the
\* broker sees every connection of it go and requeues what was unacknowledged.
BrokerDetectsExit ==
    /\ proc # "running"
    /\ \E k \in ids : conns[k] = "open"
    /\ conns' = [k \in ids |-> IF conns[k] = "open" THEN "closed" ELSE conns[k]]
    /\ ChannelsClosed(ids)
    /\ UNCHANGED <<config, recv, proc, fatalMsg, pc, c, trace, held, qos, consumerCh,
                   brokerQueue, emitted, bgVars, pubVars, logs>>

(* ----------------------------------------------------------------------- *)

Next ==
    \/ InitAMQPConnection
    \/ NewAMQPConnection
    \/ \E v \in 1..(MaxOpens + 1) : OpenCall(v)
    \/ OpenDial
    \/ OpenChannel
    \/ OpenExchange
    \/ OpenQueue
    \/ OpenBind
    \/ OpenReturn
    \/ \E t \in Threads, v \in 1..(MaxOpens + 1) : CloseCall(t, v)
    \/ \E t \in Threads : CloseChannel(t)
    \/ \E t \in Threads : CloseConn(t)
    \/ \E t \in Threads : CloseReturn(t)
    \/ \E t \in Threads, v \in 1..(MaxOpens + 1), body \in PublishBodies, rk \in RoutingKeys :
          PublishMessage(t, v, body, rk)
    \/ \E t \in Threads : PublishReturn(t)
    \/ \E v \in 1..(MaxOpens + 1) : WfmCall(v)
    \/ WfmQos
    \/ WfmConsume
    \/ WfmSpawn
    \/ WfmForever
    \/ HdRange
    \/ HdAck
    \/ HdSleep
    \/ HdTick
    \/ HdProcess
    \/ HdProcessReturn
    \/ HdProcessCrash
    \/ BrokerDeliver
    \/ \E k \in ids : ConnectionLost(k)
    \/ BrokerDetectsExit

Spec == Init /\ [][Next]_vars

(* ------------------------------ properties ----------------------------- *)

IsPrefix(s, t) == Len(s) <= Len(t) /\ \A i \in 1..Len(s) : s[i] = t[i]

AckIssued(tag) == \E j \in 1..Len(ackLog) : ackLog[j].tag = tag

FailedCall(t, op) ==
    \E i \in 1..Len(trace[t]) : trace[t][i] = [op |-> op, ok |-> FALSE]

\* C1: whenever the worker callback has been invoked for a delivery, or is
\* about to be, d.Ack has already been issued for that delivery; the acks were
\* issued in the order of the callbacks.
C1_AckBeforeCallback ==
    /\ \A i \in 1..Len(callbacks) :
          i <= Len(ackLog) /\ ackLog[i].tag = callbacks[i].tag
    /\ bgPc \in {"process", "processing"} => AckIssued(d.tag)

C1_Witness ==
    /\ bgPc = "processing" /\ Len(callbacks) = 2
    /\ AckIssued(callbacks[2].tag)

\* C2: the callbacks made are exactly the deliveries received from the stream,
\* one callback per delivery, in the order the broker emitted them and with the
\* body received; only the delivery the loop is still on has none yet.
C2_CallbackOncePerDeliveryInOrder ==
    /\ IsPrefix(pulled, emitted)
    /\ IsPrefix(callbacks, pulled)
    /\ Len(callbacks) >= Len(pulled) - 1
    /\ bgPc \in {"range", "done", "processing"} => callbacks = pulled
    /\ \A i, j \in 1..Len(callbacks) : callbacks[i].tag = callbacks[j].tag => i = j

C2_Witness ==
    /\ bgPc = "range" /\ Len(callbacks) = 3
    /\ callbacks[2].body = <<"b", ".", ".">>

\* C3: no delivery tag is acknowledged twice.
C3_AckAtMostOnce ==
    \A i, j \in 1..Len(ackLog) : ackLog[i].tag = ackLog[j].tag => i = j

C3_Witness ==
    /\ Len(ackLog) >= 2
    /\ \E t \in Threads : pc[t] = "closeReturn"

\* C4: the goroutine never issues an ack on a delivery once the channel is
\* closed.
C4_NoAckAfterChannelClosed ==
    \A i \in 1..Len(ackLog) : ackLog[i].ok

\* C5 as stated: the deliveries pushed to the consumer and not acknowledged
\* never outnumber the prefetch count of the configuration.
C5_UnackedWithinConfiguredPrefetch ==
    Cardinality(unacked) <= config.PrefetchCount

\* C5 as amended: the deliveries pushed to the consumer and not acknowledged
\* never outnumber 3, the prefetch count WaitForMessages passes to Qos,
\* whatever the configuration says.
C5_UnackedWithinThree ==
    Cardinality(unacked) <= 3

C5_Witness ==
    /\ Cardinality(unacked) = 3 /\ Len(emitted) > 3
    /\ bgPc = "processing"

\* C6: the prefetch limit is set on the channel before the stream is opened and
\* before any delivery is pushed; when Qos fails the process aborts, no stream
\* is opened and no goroutine is spawned.
C6_QosBeforeConsume ==
    /\ consumerCh # 0 => qos[consumerCh] = 3
    /\ emitted # <<>> => consumerCh # 0 /\ qos[consumerCh] = 3
    /\ FailedCall("main", "Qos") =>
          /\ proc = "fatal" /\ fatalMsg = "Failed to set QoS"
          /\ consumerCh = 0 /\ bgPc = "none" /\ emitted = <<>>
          /\ Len(trace["main"]) = 1

C6_Witness ==
    /\ emitted # <<>> /\ qos[consumerCh] = 3
    /\ trace["main"] = <<[op |-> "Qos", ok |-> TRUE], [op |-> "Consume", ok |-> TRUE]>>

\* C7: a publish with an empty routing key under exchange type "direct" goes
\* out with the configured binding key.
C7_EmptyKeyDirectUsesBindingKey ==
    \A t \in Threads :
        pub[t] # NoPub /\ pub[t].arg = "" /\ config.ExchangeType = "direct"
            => pub[t].key = config.BindingKey

C7_Witness ==
    \E t \in Threads :
        /\ pub[t] # NoPub /\ pub[t].arg = "" /\ config.ExchangeType = "direct"
        /\ pub[t].key = "work" /\ pc[t] = "publishReturn"

\* C8: a publish with an empty routing key under any other exchange type goes
\* out with the name of the queue Open declared, which is the configured
\* default queue name.
C8_EmptyKeyOtherUsesQueueName ==
    \A t \in Threads :
        pub[t] # NoPub /\ pub[t].arg = "" /\ config.ExchangeType # "direct"
            => pub[t].key = config.DefaultQueue /\ pub[t].key = c[t].queue

C8_Witness ==
    \E t \in Threads :
        /\ pub[t] # NoPub /\ pub[t].arg = "" /\ config.ExchangeType = "fanout"
        /\ pub[t].key = "default" /\ pc[t] = "publishReturn"

\* C9: a publish with a non-empty routing key goes out with that key.
C9_GivenKeyVerbatim ==
    \A t \in Threads :
        pub[t] # NoPub /\ pub[t].arg # "" => pub[t].key = pub[t].arg

C9_Witness ==
    \E t \in Threads :
        /\ pub[t] # NoPub /\ pub[t].arg = "rk" /\ pub[t].key = "rk"
        /\ config.ExchangeType = "direct" /\ pc[t] = "publishReturn"

\* C10: WaitForMessages never returns: once the goroutine is spawned the caller
\* is at the receive from forever in every state, and it never reaches the
\* deferred Close or the return.
C10_NeverReturns ==
    /\ pc["main"] \notin {"deferCloseChannel", "deferCloseConn", "returned"}
    /\ bgPc # "none" => pc["main"] = "forever"

C10_Witness ==
    /\ proc = "running" /\ pc["main"] = "forever"
    /\ bgPc = "done" /\ streamClosed /\ callbacks # <<>>


\* the broker operations of Open, in the order of the source
OpenOps == <<"Dial", "Channel", "ExchangeDeclare", "QueueDeclare", "QueueBind">>

InOpen == pc["main"] \in {"dial", "channel", "exchange", "queue", "bind", "openReturn"}

\* C11: Open is fail-fast.  While the caller is in Open the broker operations
\* made so far are the first ones of dial, channel, exchange, queue, bind, in
\* that order; only the last one made can have failed, and then the process has
\* been aborted at that step (no later operation, no value returned); Open is
\* at its return only after all five succeeded, and every value it returned
\* carries a connection, a channel and a queue name.
C11_OpenFailFast ==
    /\ InOpen =>
         /\ Len(trace["main"]) <= Len(OpenOps)
         /\ \A i \in 1..Len(trace["main"]) : trace["main"][i].op = OpenOps[i]
         /\ \A i \in 1..(Len(trace["main"]) - 1) : trace["main"][i].ok
         /\ \A i \in 1..Len(OpenOps) :
               FailedCall("main", OpenOps[i]) =>
                   /\ proc = "fatal" /\ Len(trace["main"]) = i
                   /\ pc["main"] # "openReturn"
         /\ pc["main"] = "openReturn" =>
               /\ Len(trace["main"]) = Len(OpenOps)
               /\ \A i \in 1..Len(OpenOps) : trace["main"][i].ok
    /\ \A v \in 2..Len(held) :
          /\ held[v].conn # 0 /\ conns[held[v].conn] # "none"
          /\ held[v].channel # 0 /\ chans[held[v].channel] # "none"
          /\ held[v].queue # ""
    /\ Len(held) <= 1 + Cardinality({k \in ids : chans[k] # "none"})

C11_Witness ==
    /\ proc = "fatal" /\ fatalMsg = "Exchange"
    /\ pc["main"] = "exchange" /\ Len(held) = 2
    /\ trace["main"] = <<[op |-> "Dial", ok |-> TRUE], [op |-> "Channel", ok |-> TRUE],
                         [op |-> "ExchangeDeclare", ok |-> FALSE]>>

\* C12: constructing the connection, opening it and closing it (no publish and
\* no WaitForMessages call made) never panics: not at the construction, which
\* registers the finalizer, and not at a Close on a value the caller holds.
C12_ConstructOpenCloseNoPanic ==
    nPublish = 0 /\ ~InWfm /\ bgPc = "none" => proc # "panic"

\* connections dialled and not closed
LiveConns == {k \in ids : conns[k] = "open"}

\* C13: at most one connection is live at any time, over any sequence of Open
\* and Close calls, Open called twice without a Close between included.
C13_AtMostOneLiveConnection == Cardinality(LiveConns) <= 1

\* C14: a PublishMessage call makes exactly one channel.Publish call; when it
\* failed the process has been aborted with the publish message, at that call,
\* and PublishMessage is at its return only after a successful publish.
C14_PublishOnceFatalOnError ==
    \A t \in Threads :
        /\ pub[t] # NoPub =>
              /\ Len(trace[t]) = 1 /\ trace[t][1].op = "Publish"
              /\ ~trace[t][1].ok =>
                    /\ proc = "fatal" /\ fatalMsg = "Failed to publish a message"
                    /\ pc[t] # "publishReturn"
        /\ pc[t] = "publishReturn" =>
              /\ pub[t] # NoPub
              /\ trace[t] = <<[op |-> "Publish", ok |-> TRUE]>>

C14_Witness ==
    \E t \in Threads :
        /\ pub[t] # NoPub /\ trace[t] = <<[op |-> "Publish", ok |-> FALSE]>>
        /\ proc = "fatal" /\ fatalMsg = "Failed to publish a message"
        /\ chans[pub[t].ch] = "open"

\* what errors.Log has written once the calls in tr were made by Close
CloseLogs(tr) ==
    (IF Len(tr) >= 1 /\ ~tr[1].ok THEN <<"Consumer cancel failed">> ELSE <<>>)
    \o (IF Len(tr) >= 2 /\ ~tr[2].ok THEN <<"AMQP connection close error">> ELSE <<>>)

\* C15: Close is best-effort.  It closes the channel first and the connection
\* second; an error of the channel close is logged, is not fatal, and the
\* connection close is the next step; an error of the connection close is
\* logged, is not fatal, and Close returns.
C15_CloseBestEffort ==
    /\ \A t \in Threads :
          /\ pc[t] = "closeChannel" => trace[t] = <<>> /\ logs[t] = <<>>
          /\ pc[t] = "closeConn" =>
                /\ Len(trace[t]) = 1 /\ trace[t][1].op = "channel.Close"
                /\ logs[t] = CloseLogs(trace[t])
          /\ pc[t] = "closeReturn" =>
                /\ Len(trace[t]) = 2
                /\ trace[t][1].op = "channel.Close" /\ trace[t][2].op = "conn.Close"
                /\ logs[t] = CloseLogs(trace[t])
          /\ FailedCall(t, "channel.Close") => pc[t] \in {"closeConn", "closeReturn"}
          /\ FailedCall(t, "conn.Close") => pc[t] = "closeReturn"
    /\ fatalMsg \notin {"Consumer cancel failed", "AMQP connection close error"}

C15_Witness ==
    \E t \in Threads :
        /\ proc = "running" /\ pc[t] = "closeReturn"
        /\ trace[t] = <<[op |-> "channel.Close", ok |-> FALSE],
                        [op |-> "conn.Close", ok |-> FALSE]>>
        /\ logs[t] = <<"Consumer cancel failed", "AMQP connection close error">>

\* C16: when the deliveries stream is closed the goroutine finishes what it
\* received and leaves its loop: it is done only with the stream closed and
\* drained and a callback made for every delivery received; the step that
\* leaves the loop aborts nothing, logs nothing, makes no library call and
\* moves no other goroutine; the caller of WaitForMessages stays at the receive
\* from forever, so the deferred Close is not run.
C16_StreamEndStopsQuietly ==
    /\ [](bgPc = "done" =>
            /\ streamClosed /\ deliveries = <<>> /\ callbacks = pulled
            /\ pc["main"] = "forever")
    /\ [][bgPc # "done" /\ bgPc' = "done" =>
            /\ proc' = "running" /\ fatalMsg' = fatalMsg
            /\ pc' = pc /\ trace' = trace /\ logs' = logs
            /\ conns' = conns /\ chans' = chans]_vars

C16_Witness ==
    /\ bgPc = "done" /\ proc = "running" /\ pc["main"] = "forever"
    /\ Len(callbacks) = 2 /\ Len(emitted) = 2
    /\ trace["main"] = <<[op |-> "Qos", ok |-> TRUE], [op |-> "Consume", ok |-> TRUE]>>
    /\ pc["owner"] = "idle" /\ conns[consumerCh] = "closed"

\* the broker received an acknowledgment of the delivery tag
Acked(tag) == \E j \in 1..Len(ackLog) : ackLog[j].tag = tag /\ ackLog[j].ok

\* C17: the broker requeues a delivery only when the consumer's channel or
\* connection has gone while the delivery was unacknowledged; a delivery it
\* received an acknowledgment for is neither outstanding nor requeued; and as
\* the ack comes before the callback, the delivery a callback is running for is
\* not outstanding any more, so when the callback crashes or the process ends
\* during it an acknowledged delivery is not redelivered.
C17_AckedDeliveryLostOnCrash ==
    /\ requeued # {} => consumerCh # 0 /\ chans[consumerCh] = "closed"
    /\ \A tag \in requeued : ~Acked(tag)
    /\ \A tag \in 1..Len(emitted) : Acked(tag) => tag \notin unacked \cup requeued
    /\ bgPc \in {"process", "processing"} => d.tag \notin unacked
    /\ bgPc = "processing" /\ proc # "running" /\ Acked(d.tag) =>
          d.tag \notin unacked \cup requeued

C17_Witness ==
    /\ proc = "panic" /\ bgPc = "processing"
    /\ Acked(d.tag) /\ d.tag = 1
    /\ \A k \in ids : conns[k] # "open"
    /\ requeued = {2, 3} /\ unacked = {}

\* C18: a WaitForMessages call runs one handleDeliveries goroutine, there from
\* the go statement on; acks and callbacks alternate: the acks issued are those
\* of the deliveries received, in order, every ack but the newest has had its
\* callback, the ack of the next delivery is not issued while a callback has
\* not returned, and a callback runs for the newest ack only.
C18_AcksAndCallbacksAlternate ==
    /\ bgPc # "none" <=> pc["main"] \in {"forever", "deferCloseChannel",
                                         "deferCloseConn", "returned"}
    /\ Len(ackLog) \in {Len(callbacks), Len(callbacks) + 1}
    /\ \A i \in 1..Len(ackLog) : i <= Len(pulled) /\ ackLog[i].tag = pulled[i].tag
    /\ Len(ackLog) = Len(callbacks) + 1 => bgPc \in {"sleep", "sleeping", "process"}
    /\ bgPc = "ack" => Len(callbacks) = Len(ackLog) /\ Len(pulled) = Len(ackLog) + 1
    /\ bgPc = "processing" =>
          Len(ackLog) = Len(callbacks) /\ Len(pulled) = Len(callbacks)

C18_Witness ==
    /\ proc = "running" /\ bgPc = "processing"
    /\ Len(callbacks) = 2 /\ Len(ackLog) = 2
    /\ Len(deliveries) = 2 /\ Len(pulled) = 2

\* the messages of the errors.Fail and errors.Log calls of the source
FailMessages == {"Dial", "Channel", "Exchange", "Queue Declare", "Queue Bind",
                 "Failed to set QoS", "Queue Consume", "Failed to publish a message"}
LogMessages == {"Consumer cancel failed", "AMQP connection close error"}

\* C19: the result of d.Ack is ignored.  A delivery whose ack failed has its
\* callback all the same, or the loop is on its way to it (at the sleep or at
\* the call); the failed ack does not end the loop, and nothing about an ack is
\* ever a fatal message or a logged one.
C19_AckResultIgnored ==
    /\ \A i \in 1..Len(ackLog) :
          ~ackLog[i].ok =>
              \/ i <= Len(callbacks) /\ callbacks[i].tag = ackLog[i].tag
              \/ i = Len(ackLog) /\ bgPc \in {"sleep", "sleeping", "process"}
    /\ fatalMsg \in FailMessages \cup {""}
    /\ \A t \in Threads : \A i \in 1..Len(logs[t]) : logs[t][i] \in LogMessages

C19_Witness ==
    /\ proc = "running" /\ bgPc = "range"
    /\ Len(ackLog) = 2 /\ ackLog[1].ok /\ ~ackLog[2].ok
    /\ Len(callbacks) = 2 /\ callbacks[2].tag = ackLog[2].tag

\* the value the k-th successful Open returned
Opened(k) == [conn |-> k, channel |-> k, queue |-> DeclaredName(config.DefaultQueue)]

\* C20: Open does not modify the value it is called on.  The value the caller
\* constructed stays unopened (no connection, no channel, no queue) however
\* many Open calls were made on it, every value an Open returned stays the one
\* that Open built, whatever later Open calls are made on it, and a Close or a
\* WaitForMessages made on the constructed value works on the nil channel (and
\* panics on it).
C20_OpenLeavesReceiverUnopened ==
    /\ Len(held) >= 1 => held[1] = NilVal
    /\ \A v \in 2..Len(held) : held[v] = Opened(v - 1)
    /\ recv # 0 => InOpen /\ recv \in 1..Len(held)
    /\ \A t \in Threads :
          pc[t] \in {"closeChannel", "qos"} /\ c[t].channel = 0 =>
              c[t] = held[1] /\ (proc = "running" \/ proc = "panic")

C20_Witness ==
    /\ Len(held) = 2 /\ held[1] = NilVal /\ held[2] = Opened(1)
    /\ conns[1] = "open"
    /\ proc = "panic" /\ pc["main"] = "closeChannel" /\ c["main"] = held[1]

=============================================================================
